---- MODULE Spec2Model ----
(***************************************************************************)
(* A model of the dental image analysis pipeline of backend/model.py      *)
(* (class DentalAIModel) and of the callers that use it.                  *)
(*                                                                         *)
(* Numbers.  Python floats are IEEE-754 binary64.  The aggregator          *)
(* (calculate_overall_score) compares its result against the grade band    *)
(* edges, where a rounding error of one unit in the last place decides     *)
(* the grade, so it is modelled in exact binary64 arithmetic (round to     *)
(* nearest, ties to even) on arbitrary-precision naturals.  TLC's          *)
(* integers are 32 bits wide, so a natural is a sequence of 14-bit limbs,  *)
(* least significant first, without leading zero limbs.                    *)
(***************************************************************************)
EXTENDS Integers, Sequences, FiniteSets

\* ------------------------------------------------------------------------
\* Arbitrary-precision naturals

Pow2(n) == 2^n

Base == 2^14

Max(a, b) == IF a >= b THEN a ELSE b

Min(a, b) == IF a <= b THEN a ELSE b

RECURSIVE Trim(_)
Trim(a) ==
    IF a = <<>> THEN <<>>
    ELSE IF a[Len(a)] = 0 THEN Trim(SubSeq(a, 1, Len(a) - 1))
    ELSE a

RECURSIVE Carry(_, _, _)
Carry(cols, i, c) ==
    IF i > Len(cols)
    THEN IF c = 0 THEN <<>> ELSE <<c % Base>> \o Carry(cols, i, c \div Base)
    ELSE LET t == cols[i] + c
         IN  <<t % Base>> \o Carry(cols, i + 1, t \div Base)

Limb(a, i) == IF i >= 1 /\ i <= Len(a) THEN a[i] ELSE 0

RECURSIVE BigOfInt(_)
BigOfInt(n) == IF n = 0 THEN <<>> ELSE <<n % Base>> \o BigOfInt(n \div Base)

RECURSIVE BigToInt(_)
BigToInt(a) == IF a = <<>> THEN 0 ELSE a[1] + Base * BigToInt(Tail(a))

BigAdd(a, b) ==
    Trim(Carry([k \in 1..Max(Len(a), Len(b)) |-> Limb(a, k) + Limb(b, k)], 1, 0))

RECURSIVE Borrow(_, _, _, _)
Borrow(a, b, i, br) ==
    IF i > Len(a) THEN <<>>
    ELSE LET t == a[i] - Limb(b, i) - br
         IN  IF t < 0
             THEN <<t + Base>> \o Borrow(a, b, i + 1, 1)
             ELSE <<t>> \o Borrow(a, b, i + 1, 0)

\* a - b for a >= b
BigSub(a, b) == Trim(Borrow(a, b, 1, 0))

RECURSIVE ColSum(_, _, _, _)
ColSum(a, b, k, i) ==
    IF i > Len(a) THEN 0
    ELSE (IF k + 1 - i >= 1 /\ k + 1 - i <= Len(b) THEN a[i] * b[k + 1 - i] ELSE 0)
         + ColSum(a, b, k, i + 1)

BigMul(a, b) ==
    IF a = <<>> \/ b = <<>> THEN <<>>
    ELSE Trim(Carry([k \in 1..(Len(a) + Len(b) - 1) |-> ColSum(a, b, k, 1)], 1, 0))

RECURSIVE CmpFrom(_, _, _)
CmpFrom(a, b, i) ==
    IF i = 0 THEN 0
    ELSE IF a[i] < b[i] THEN -1
    ELSE IF a[i] > b[i] THEN 1
    ELSE CmpFrom(a, b, i - 1)

\* -1, 0, 1 as a < b, a = b, a > b
BigCmp(a, b) ==
    IF Len(a) < Len(b) THEN -1
    ELSE IF Len(a) > Len(b) THEN 1
    ELSE CmpFrom(a, b, Len(a))

RECURSIVE IntBits(_)
IntBits(n) == IF n = 0 THEN 0 ELSE 1 + IntBits(n \div 2)

LimbBits == IntBits(Base) - 1

BitLength(a) == IF a = <<>> THEN 0 ELSE (Len(a) - 1) * LimbBits + IntBits(a[Len(a)])

BigPow2(s) == [k \in 1..(s \div LimbBits) |-> 0] \o <<Pow2(s % LimbBits)>>

ShiftLeft(a, s) == BigMul(a, BigPow2(s))

\* floor(a / 2^s)
ShiftRight(a, s) ==
    LET drop == s \div LimbBits
        r    == s % LimbBits
        n    == Len(a) - drop
    IN  IF n <= 0 THEN <<>>
        ELSE Trim([k \in 1..n |->
                 (a[k + drop] \div Pow2(r))
                 + (Limb(a, k + drop + 1) % Pow2(r)) * Pow2(LimbBits - r)])

\* a / 2^s rounded to the nearest integer, ties to the even one
RoundShift(a, s) ==
    IF s <= 0 THEN ShiftLeft(a, -s)
    ELSE LET q    == ShiftRight(a, s)
             rem  == BigSub(a, ShiftLeft(q, s))
             half == BigCmp(BigAdd(rem, rem), BigPow2(s))
             odd  == Limb(q, 1) % 2 = 1
         IN  IF half > 0 \/ (half = 0 /\ odd) THEN BigAdd(q, <<1>>) ELSE q

RECURSIVE DivSmallFrom(_, _, _, _)
DivSmallFrom(a, d, i, rem) ==
    IF i = 0 THEN <<<<>>, rem>>
    ELSE LET t    == rem * Base + a[i]
             rest == DivSmallFrom(a, d, i - 1, t % d)
         IN  <<rest[1] \o <<t \div d>>, rest[2]>>

\* <<floor(a / d), a mod d>> for a small divisor d (d * Base fits an integer)
BigDivSmall(a, d) ==
    LET r == DivSmallFrom(a, d, Len(a), 0)
    IN  <<Trim(r[1]), r[2]>>

\* ------------------------------------------------------------------------
\* IEEE-754 binary64 values: (-1)^neg * m * 2^e with m < 2^53 (m = <<>> is
\* zero).  Every operation computes the exact result and rounds it once.

\* the hidden bit and the 52 stored bits of a binary64 significand
MantBits == 1 + 52

FZero == [neg |-> FALSE, m |-> <<>>, e |-> 0]

\* the double nearest to (-1)^neg * M * 2^E
RoundToDouble(neg, M, E) ==
    LET L == BitLength(M)
    IN  IF M = <<>> THEN FZero
        ELSE IF L <= MantBits THEN [neg |-> neg, m |-> M, e |-> E]
        ELSE [neg |-> neg, m |-> RoundShift(M, L - MantBits), e |-> E + L - MantBits]

FNeg(x) == IF x.m = <<>> THEN x ELSE [x EXCEPT !.neg = ~x.neg]

\* the mantissas of x and y over their common (smaller) exponent
Aligned(x, y) ==
    LET e == IF x.m = <<>> THEN y.e ELSE IF y.m = <<>> THEN x.e ELSE Min(x.e, y.e)
    IN  [e |-> e,
         a |-> IF x.m = <<>> THEN <<>> ELSE ShiftLeft(x.m, x.e - e),
         b |-> IF y.m = <<>> THEN <<>> ELSE ShiftLeft(y.m, y.e - e)]

FAdd(x, y) ==
    LET al == Aligned(x, y)
    IN  IF x.neg = y.neg THEN RoundToDouble(x.neg, BigAdd(al.a, al.b), al.e)
        ELSE IF BigCmp(al.a, al.b) >= 0
             THEN RoundToDouble(x.neg, BigSub(al.a, al.b), al.e)
             ELSE RoundToDouble(y.neg, BigSub(al.b, al.a), al.e)

FSub(x, y) == FAdd(x, FNeg(y))

FMul(x, y) == RoundToDouble(x.neg # y.neg, BigMul(x.m, y.m), x.e + y.e)

\* -1, 0, 1 as x < y, x = y, x > y
FCmp(x, y) ==
    LET al == Aligned(x, y)
        c  == BigCmp(al.a, al.b)
    IN  IF x.neg /\ ~y.neg THEN -1
        ELSE IF ~x.neg /\ y.neg THEN 1
        ELSE IF x.neg THEN -c ELSE c

FLess(x, y) == FCmp(x, y) < 0

FGeq(x, y) == FCmp(x, y) >= 0

\* extra quotient bits kept before the single rounding of a division
GuardBits == 5 * LimbBits

\* the double nearest to k / d, as Python reads a decimal literal and as a
\* correctly rounded division gives it (k >= 0, d > 0 small)
FRatio(k, d) ==
    LET qr == BigDivSmall(ShiftLeft(BigOfInt(k), GuardBits), d)
        M  == BigAdd(BigAdd(qr[1], qr[1]), IF qr[2] = 0 THEN <<>> ELSE <<1>>)
    IN  RoundToDouble(FALSE, M, -(GuardBits + 1))

FInt(k) == IF k >= 0 THEN RoundToDouble(FALSE, BigOfInt(k), 0)
                     ELSE RoundToDouble(TRUE, BigOfInt(-k), 0)

\* numpy rint: x rounded to the nearest integer, ties to even (|x| small)
FRint(x) ==
    LET k == BigToInt(RoundShift(x.m, -x.e))
    IN  IF x.neg THEN -k ELSE k

\* ------------------------------------------------------------------------
\* Fixed-point helpers.  Scores outside the aggregator are carried in
\* millionths (1000000 = 1.0); the reported values are thousandths.

Million == 1000 * 1000

\* floor(a * 10^6 / n) for 0 <= a, 0 < n <= 2^18, computed without overflow
Micro(a, n) ==
    LET q0 == a \div n
        r0 == a % n
        q1 == (r0 * 1000) \div n
        r1 == (r0 * 1000) % n
        q2 == (r1 * 1000) \div n
    IN  q0 * Million + q1 * 1000 + q2

\* x / unit rounded to the nearest integer, ties to even (x >= 0)
RoundTo(x, unit) ==
    LET q == x \div unit
        r == x % unit
    IN  IF 2 * r > unit \/ (2 * r = unit /\ q % 2 = 1) THEN q + 1 ELSE q

\* round(x, 3) of a value in millionths, as thousandths
Round3(x) == RoundTo(x, 1000)

\* ------------------------------------------------------------------------
\* Pixels.  A colour is an 8-bit <<r, g, b>> triple.  preprocess_image
\* divides by 255 in float32 and the stages multiply by 255 and truncate
\* to uint8 again (model.py lines 45, 57, 103): that round trip returns
\* every one of the 256 channel values unchanged, so the stages see the
\* resized image's own 8-bit values.

W240    == <<240, 240, 240>>
White   == <<255, 255, 255>>
Grey200 == <<200, 200, 200>>
Ivory   == <<235, 230, 220>>
Ice     == <<220, 230, 235>>
Peach   == <<254, 214, 184>>
Tartar  == <<200, 180, 140>>
Mint    == <<225, 240, 225>>
Gum     == <<150, 50, 60>>
Rust    == <<145, 75, 0>>
Yellow  == <<255, 255, 0>>
Black   == <<0, 0, 0>>

Palette == {W240, White, Grey200, Ivory, Ice, Peach, Tartar, Mint, Gum, Rust, Yellow, Black}

\* cv2.COLOR_RGB2GRAY on uint8: 14-bit fixed-point luma weights
Gray(c) == (c[1] * 4899 + c[2] * 9617 + c[3] * 1868 + 8192) \div 16384

\* n / d rounded to the nearest integer (d > 0)
RoundDiv(n, d) == IF n >= 0 THEN (2 * n + d) \div (2 * d) ELSE -((2 * (-n) + d) \div (2 * d))

\* cv2.COLOR_RGB2HSV on uint8: <<h, s, v>> with h in 0..179 (degrees / 2)
Hsv(c) ==
    LET v  == Max(c[1], Max(c[2], c[3]))
        mn == Min(c[1], Min(c[2], c[3]))
        d  == v - mn
        s  == IF v = 0 THEN 0 ELSE RoundDiv(255 * d, v)
        h0 == IF d = 0 THEN 0
              ELSE IF v = c[1] THEN RoundDiv(30 * (c[2] - c[3]), d)
              ELSE IF v = c[2] THEN RoundDiv(30 * (c[3] - c[1]) + 60 * d, d)
              ELSE RoundDiv(30 * (c[1] - c[2]) + 120 * d, d)
    IN  <<(h0 + 180) % 180, s, v>>

\* cv2.COLOR_RGB2LAB on uint8, <<L, a, b>> = <<L* * 255/100, a* + 128, b* + 128>>,
\* tabulated for the palette (sRGB gamma, D65 white, cube roots)
Lab(c) ==
    CASE c = W240    -> <<242, 128, 128>>
      [] c = White   -> <<255, 128, 128>>
      [] c = Grey200 -> <<206, 128, 128>>
      [] c = Ivory   -> <<233, 128, 133>>
      [] c = Ice     -> <<231, 126, 124>>
      [] c = Peach   -> <<225, 138, 148>>
      [] c = Tartar  -> <<189, 129, 151>>
      [] c = Mint    -> <<238, 120, 134>>
      [] c = Gum     -> <<92, 171, 145>>
      [] c = Rust    -> <<101, 153, 177>>
      [] c = Yellow  -> <<248, 106, 222>>
      [] c = Black   -> <<0, 128, 128>>

\* ------------------------------------------------------------------------
\* Images.  The 512 x 512 frame is a sequence of connected regions of one
\* colour each: [rgb, area (pixels), width, inside].  width tells how the
\* region fares under the morphological filters: "wide" (at least 5 pixels
\* across) survives them all, "narrow" (3 or 4 pixels across) is removed by
\* the 5x5 opening and filled by the 5x5 closing but survives a 3x3
\* opening, "hair" (1 or 2 pixels across) is removed by the 3x3 opening
\* too.  inside is the index of the region that encloses it, or 0.
\* An image also carries the measurements that depend on the shapes of its
\* outlines: edgeMilli, the summed polygon-points-per-perimeter of the
\* mask's contours in thousandths, and textureMean and textureStd, the mean
\* and the standard deviation of the blur residual over the mask in
\* hundredths of a grey level.

FrameSide == 512

FramePixels == FrameSide * FrameSide

Region(rgb, area, width, inside) ==
    [rgb |-> rgb, area |-> area, width |-> width, inside |-> inside]

Image(channels, regions, edgeMilli, textureMean, textureStd) ==
    [channels |-> channels, regions |-> regions, edgeMilli |-> edgeMilli,
     textureMean |-> textureMean, textureStd |-> textureStd]

RECURSIVE SumOver(_, _, _)
\* the sum of F[i] over the indices i in S
SumOver(S, F, acc) ==
    IF S = {} THEN acc
    ELSE LET i == CHOOSE x \in S : TRUE
         IN  SumOver(S \ {i}, F, acc + F[i])

Idx(px) == 1..Len(px)

\* np.sum(mask): the number of true pixels of a mask (a set of regions)
MaskArea(px, mask) == SumOver(mask, [i \in Idx(px) |-> px[i].area], 0)

\* the sum over the pixels of a mask of a per-region value
ChannelSum(px, mask, vals) ==
    SumOver(mask, [i \in Idx(px) |-> px[i].area * vals[i]], 0)

GrayOf(px) == [i \in Idx(px) |-> Gray(px[i].rgb)]

LabOf(px, k) == [i \in Idx(px) |-> Lab(px[i].rgb)[k]]

HsvOf(px, k) == [i \in Idx(px) |-> Hsv(px[i].rgb)[k]]

SwapRB(c) == <<c[3], c[2], c[1]>>

\* preprocess_image: the 512 x 512 RGB pixels, or a raised exception
preprocess_image(image) ==
    IF image.channels = 3
    THEN [raised |-> FALSE, px |-> image.regions]
    ELSE IF image.channels = 4
    THEN [raised |-> FALSE,
          px |-> [i \in Idx(image.regions) |->
                    [image.regions[i] EXCEPT !.rgb = SwapRB(image.regions[i].rgb)]]]
    ELSE [raised |-> TRUE, px |-> <<>>]

\* the value at 0-based position k of the sorted grey levels
SortedGray(px, k) ==
    LET g(i)    == Gray(px[i].rgb)
        below(v) == MaskArea(px, {i \in Idx(px) : g(i) < v})
        upto(v)  == MaskArea(px, {i \in Idx(px) : g(i) <= v})
    IN  CHOOSE v \in {g(i) : i \in Idx(px)} : below(v) <= k /\ k < upto(v)

\* 4 * np.percentile(gray, 75): linear interpolation between the two
\* neighbours of position 0.75 * (N - 1)
Percentile75x4(px) ==
    LET pos4 == 3 * (MaskArea(px, Idx(px)) - 1)
        lo   == pos4 \div 4
        fr   == pos4 % 4
        hi   == IF fr = 0 THEN lo ELSE lo + 1
    IN  (4 - fr) * SortedGray(px, lo) + fr * SortedGray(px, hi)

\* the brightness test with >= for >
BrightOrEqual(px) == {i \in Idx(px) : 4 * Gray(px[i].rgb) >= Percentile75x4(px)}

\* gray > np.percentile(gray, 75)
bright_mask(px) == {i \in Idx(px) : 4 * Gray(px[i].rgb) > Percentile75x4(px)}

\* np.abs(a_channel - 128) on a uint8 array: the subtraction wraps
AbsDiffU8(a, k) == (a - k) % 256

teeth_mask_lab(px) ==
    {i \in Idx(px) : Lab(px[i].rgb)[1] > 120 /\ AbsDiffU8(Lab(px[i].rgb)[2], 128) < 20}

teeth_mask_hsv(px) ==
    {i \in Idx(px) : Hsv(px[i].rgb)[2] < 80 /\ Hsv(px[i].rgb)[3] > 150}

combined_mask(px) == bright_mask(px) \cap teeth_mask_lab(px) \cap teeth_mask_hsv(px)

\* opening, closing and median filter with 5x5 kernels: a wide region
\* keeps its value; a narrower one takes the value of the wide region
\* around it, or drops out of the mask when nothing encloses it
cleaned_mask(px, m) ==
    {i \in Idx(px) :
        IF px[i].width = "wide" THEN i \in m
        ELSE px[i].inside # 0 /\ px[px[i].inside].width = "wide" /\ px[i].inside \in m}

\* a fallback mask that is false everywhere
DetectTeethFailClosed(px, fault) ==
    IF fault = "segment" THEN {} ELSE cleaned_mask(px, combined_mask(px))

\* detect_teeth_region: the mask, all-true when the segmentation raised
detect_teeth_region(px, fault) ==
    IF fault = "segment" THEN Idx(px) ELSE cleaned_mask(px, combined_mask(px))

\* ------------------------------------------------------------------------
\* analyze_tooth_yellowness

YellowAdvice ==
    <<"Brush teeth twice daily with whitening toothpaste",
      "Reduce consumption of coffee, tea, and red wine",
      "Avoid smoking and tobacco products">>

WhiteningAdvice ==
    <<"Consider professional teeth whitening treatment",
      "Use whitening mouthwash daily",
      "Schedule dental cleaning every 6 months">>

AdvancedAdvice ==
    <<"Consult dentist for advanced whitening options",
      "Consider in-office whitening procedures",
      "Evaluate underlying causes of discoloration">>

MaintainWhiteAdvice ==
    <<"Maintain excellent oral hygiene",
      "Continue current dental care routine",
      "Regular dental checkups to maintain whiteness">>

\* the dark-teeth penalty of the yellowness score (x 1.2), in millionths
DarkPenalty(score) == (score * 12) \div 10

\* the two weights exchanged: 0.3 on the LAB b term, 0.7 on the hue term
YellownessBaseSwapped(meanB, hueFrac) ==
    LET yellowness_b == Max(0, (meanB - 128 * Million) \div 127)
    IN  Min(Million, Max(0, (yellowness_b * 3 + hueFrac * 7) \div 10))

\* the combined yellowness score in millionths, before the brightness adjustment
YellownessBase(meanB, hueFrac) ==
    LET yellowness_b == Max(0, (meanB - 128 * Million) \div 127)
    IN  Min(Million, Max(0, (yellowness_b * 7 + hueFrac * 3) \div 10))

\* the yellowness score in millionths from the masked statistics: the mean
\* LAB b and L (millionths of a level) and the yellow-hue fraction
YellownessScore(meanB, hueFrac, meanL) ==
    IF meanL < 102 * Million
    THEN DarkPenalty(YellownessBase(meanB, hueFrac))
    ELSE YellownessBase(meanB, hueFrac)

YellownessSeverity(score) ==
    IF score < 150000 THEN "Excellent - Very white teeth"
    ELSE IF score < 300000 THEN "Good - Slight yellowness"
    ELSE IF score < 500000 THEN "Fair - Moderate yellowness"
    ELSE IF score < 700000 THEN "Poor - Significant yellowness"
    ELSE "Critical - Severe yellowness"

\* the maintenance advice given up to the first tier's threshold 0.2
YellownessRecommendationsNoGap(score) ==
    (IF score > 200000 THEN YellowAdvice ELSE <<>>)
    \o (IF score > 400000 THEN WhiteningAdvice ELSE <<>>)
    \o (IF score > 600000 THEN AdvancedAdvice ELSE <<>>)
    \o (IF score <= 200000 THEN MaintainWhiteAdvice ELSE <<>>)

YellownessRecommendations(score) ==
    (IF score > 200000 THEN YellowAdvice ELSE <<>>)
    \o (IF score > 400000 THEN WhiteningAdvice ELSE <<>>)
    \o (IF score > 600000 THEN AdvancedAdvice ELSE <<>>)
    \o (IF score <= 150000 THEN MaintainWhiteAdvice ELSE <<>>)

\* the empty-mask result with the neutral score 0.5
YellownessNoTeethNeutral ==
    [condition |-> "tooth_yellowness", yellowness_score |-> 500,
     severity |-> "Cannot detect teeth", whiteness_level |-> 0,
     recommendations |-> <<"Please retake photo with better lighting and teeth visibility">>]

YellownessNoTeeth ==
    [condition |-> "tooth_yellowness", yellowness_score |-> 0,
     severity |-> "Cannot detect teeth", whiteness_level |-> 0,
     recommendations |-> <<"Please retake photo with better lighting and teeth visibility">>]

YellownessError ==
    [condition |-> "tooth_yellowness", yellowness_score |-> 0,
     severity |-> "Error in analysis", whiteness_level |-> 0,
     recommendations |-> <<"Please retake photo for analysis">>]

analyze_tooth_yellowness(px, mask, fault) ==
    IF fault = "yellowness" THEN YellownessError
    ELSE IF MaskArea(px, mask) = 0 THEN YellownessNoTeeth
    ELSE LET n       == MaskArea(px, mask)
             meanL   == Micro(ChannelSum(px, mask, LabOf(px, 1)), n)
             meanB   == Micro(ChannelSum(px, mask, LabOf(px, 3)), n)
             yellow  == {i \in mask : HsvOf(px, 1)[i] >= 15 /\ HsvOf(px, 1)[i] <= 35}
             hueFrac == Micro(MaskArea(px, yellow), n)
             score   == YellownessScore(meanB, hueFrac, meanL)
         IN  [condition |-> "tooth_yellowness",
              yellowness_score |-> Round3(score),
              severity |-> YellownessSeverity(score),
              whiteness_level |-> Round3(meanL \div 255),
              lab_b_value |-> RoundTo(meanB, 10000),
              yellow_hue_percentage |-> RoundTo(hueFrac, 100),
              recommendations |-> YellownessRecommendations(score)]

\* ------------------------------------------------------------------------
\* The four sub-detectors of detect_basic_dental_flaws

\* the severity tier shared by the sub-detectors (score in millionths)
SubSeverity(score) ==
    IF score < 200000 THEN "None"
    ELSE IF score < 400000 THEN "Mild"
    ELSE IF score < 600000 THEN "Moderate"
    ELSE "Severe"

\* a raising sub-detector counted as the worst case
DetectorErrorSevere == [severity |-> "Severe", score |-> Million]

\* a sub-detector's result when it raised
DetectorError == [severity |-> "None", score |-> 0]

RECURSIVE BigSumOver(_, _, _)
BigSumOver(S, F, acc) ==
    IF S = {} THEN acc
    ELSE LET i == CHOOSE x \in S : TRUE
         IN  BigSumOver(S \ {i}, F, BigAdd(acc, F[i]))

\* the regions of the mask darker than mean - 1.5 * std of the masked grey
\* levels: g < mean - 1.5 std  iff  S1 - g n > 0 and 4 (S1 - g n)^2 >
\* 9 (n S2 - S1^2), with S1 and S2 the sums of g and g^2 over the n pixels
DarkRegions(px, mask) ==
    LET n   == MaskArea(px, mask)
        g   == GrayOf(px)
        S1  == ChannelSum(px, mask, g)
        S2  == BigSumOver(mask, [i \in Idx(px) |->
                   BigMul(BigOfInt(px[i].area * g[i]), BigOfInt(g[i]))], <<>>)
        var == BigSub(BigMul(BigOfInt(n), S2), BigMul(BigOfInt(S1), BigOfInt(S1)))
        d(i) == S1 - g[i] * n
    IN  {i \in mask :
            /\ d(i) > 0
            /\ BigCmp(BigMul(BigOfInt(4), BigMul(BigOfInt(d(i)), BigOfInt(d(i)))),
                      BigMul(BigOfInt(9), var)) > 0}

\* the dark-spot score in millionths from the significant spots' summed
\* area over the mask area (millionths) and their number
DarkSpotScore(ratio, spots) == Min(Million, ratio * 20 + spots * 100000)

detect_dark_spots(px, mask, fault) ==
    IF fault = "dark_spots" THEN DetectorError
    ELSE LET opened      == {i \in DarkRegions(px, mask) : px[i].width # "hair"}
             significant == {i \in opened : px[i].area > 15}
             ratio       == Micro(MaskArea(px, significant), MaskArea(px, mask))
             score       == DarkSpotScore(ratio, Cardinality(significant))
         IN  [severity |-> SubSeverity(score), score |-> score,
              spots_count |-> Cardinality(significant),
              dark_area_percentage |-> RoundTo(ratio, 100)]

EdgeScore(irregularity, perimeter) ==
    IF perimeter THEN Min(Million, irregularity * 100) ELSE 0

detect_edge_irregularities(image, px, mask, fault) ==
    IF fault = "edges" THEN DetectorError
    ELSE LET tooth == \E i \in mask : px[i].inside \notin mask /\ px[i].area > 100
             irregularity == IF tooth THEN image.edgeMilli ELSE 0
             score == EdgeScore(irregularity, tooth)
         IN  [severity |-> SubSeverity(score), score |-> score,
              edge_complexity |-> irregularity]

TextureScore(mean, std) == Min(Million, (mean + std) * 200)

analyze_surface_texture(image, px, mask, fault) ==
    IF fault = "texture" THEN DetectorError
    ELSE LET score == TextureScore(image.textureMean, image.textureStd)
         IN  [severity |-> SubSeverity(score), score |-> score,
              texture_variance |-> image.textureStd]

\* cv2.inRange(hsv, [10, 50, 50], [30, 255, 200])
PlaqueColour(c) ==
    /\ Hsv(c)[1] >= 10 /\ Hsv(c)[1] <= 30
    /\ Hsv(c)[2] >= 50 /\ Hsv(c)[2] <= 255
    /\ Hsv(c)[3] >= 50 /\ Hsv(c)[3] <= 200

\* the plaque score without its cap at 1.0
PlaqueUncapped(ratio) == ratio * 5

\* min(1.0, plaque_ratio * 5)
PlaqueScore(ratio) == Min(Million, ratio * 5)

detect_plaque_tartar(px, mask, fault) ==
    IF fault = "plaque" THEN DetectorError
    ELSE LET plaque == {i \in mask : PlaqueColour(px[i].rgb)}
             ratio  == Micro(MaskArea(px, plaque), MaskArea(px, mask))
             score  == PlaqueScore(ratio)
         IN  [severity |-> SubSeverity(score), score |-> score,
              plaque_percentage |-> RoundTo(ratio, 100)]

\* ------------------------------------------------------------------------
\* detect_basic_dental_flaws

ExamAdvice ==
    <<"Schedule a dental examination",
      "Improve daily oral hygiene routine",
      "Consider professional cleaning">>

UrgentAdvice ==
    <<"Urgent dental consultation recommended",
      "Address visible dental issues promptly",
      "Professional treatment may be required">>

MaintainCareAdvice ==
    <<"Maintain excellent oral care",
      "Continue regular dental checkups",
      "Keep up good oral hygiene habits">>

\* the overall severity labelled with the sub-detectors' tiers
FlawSeverityOfDetector(score) == SubSeverity(score)

FlawSeverity(score) ==
    IF score < 200000 THEN "Excellent - No significant flaws"
    ELSE IF score < 400000 THEN "Good - Minor issues"
    ELSE IF score < 600000 THEN "Fair - Moderate issues"
    ELSE IF score < 800000 THEN "Poor - Multiple issues"
    ELSE "Critical - Severe issues"

FlawRecommendations(score) ==
    (IF score > 300000 THEN ExamAdvice ELSE <<>>)
    \o (IF score > 500000 THEN UrgentAdvice ELSE <<>>)
    \o (IF score <= 200000 THEN MaintainCareAdvice ELSE <<>>)

\* the empty-mask result with the neutral score 0.5
FlawsCannotAnalyzeNeutral ==
    [condition |-> "dental_flaws", flaw_score |-> 500, issues_detected |-> <<>>,
     severity |-> "Cannot analyze",
     recommendations |-> <<"Please retake photo with clearer teeth visibility">>]

FlawsCannotAnalyze ==
    [condition |-> "dental_flaws", flaw_score |-> 0, issues_detected |-> <<>>,
     severity |-> "Cannot analyze",
     recommendations |-> <<"Please retake photo with clearer teeth visibility">>]

FlawsError ==
    [condition |-> "dental_flaws", flaw_score |-> 0, issues_detected |-> <<>>,
     severity |-> "Error in analysis",
     recommendations |-> <<"Please retake photo for analysis">>]

\* a block that keeps the score of a detector that reported "None"
AppendIssueAnyScore(acc, label, d) ==
    [issues_detected |->
        IF d.severity # "None"
        THEN Append(acc.issues_detected, <<label, d.severity>>)
        ELSE acc.issues_detected,
     flaw_scores |-> Append(acc.flaw_scores, d.score)]

\* one "if severity != None" block: the issue string and the score are
\* appended together (acc holds issues_detected and flaw_scores)
AppendIssue(acc, label, d) ==
    IF d.severity # "None"
    THEN [issues_detected |-> Append(acc.issues_detected, <<label, d.severity>>),
          flaw_scores |-> Append(acc.flaw_scores, d.score)]
    ELSE acc

RECURSIVE SeqSum(_)
SeqSum(q) == IF q = <<>> THEN 0 ELSE Head(q) + SeqSum(Tail(q))

\* the mean taken over all four sub-detectors, the silent ones counting 0
FlawMeanOverFour(flaw_scores) == SeqSum(flaw_scores) \div 4

\* np.mean(flaw_scores) in millionths, 0.0 for an empty list
FlawMean(flaw_scores) ==
    IF flaw_scores = <<>> THEN 0 ELSE SeqSum(flaw_scores) \div Len(flaw_scores)

detect_basic_dental_flaws(image, px, mask, fault) ==
    IF fault = "flaws" THEN FlawsError
    ELSE IF MaskArea(px, mask) = 0 THEN FlawsCannotAnalyze
    ELSE LET dark    == detect_dark_spots(px, mask, fault)
             edge    == detect_edge_irregularities(image, px, mask, fault)
             texture == analyze_surface_texture(image, px, mask, fault)
             plaque  == detect_plaque_tartar(px, mask, fault)
             acc0 == [issues_detected |-> <<>>, flaw_scores |-> <<>>]
             acc1 == AppendIssue(acc0, "Dark spots detected", dark)
             acc2 == AppendIssue(acc1, "Edge irregularities", edge)
             acc3 == AppendIssue(acc2, "Surface irregularities", texture)
             acc4 == AppendIssue(acc3, "Plaque/tartar buildup", plaque)
             issues_detected == acc4.issues_detected
             flaw_scores     == acc4.flaw_scores
             overall_flaw_score == FlawMean(flaw_scores)
         IN  [condition |-> "dental_flaws",
              flaw_score |-> Round3(overall_flaw_score),
              issues_detected |-> issues_detected,
              severity |-> FlawSeverity(overall_flaw_score),
              detailed_analysis |->
                  [dark_spots |-> dark, edge_irregularities |-> edge,
                   surface_texture |-> texture, plaque_tartar |-> plaque],
              recommendations |-> FlawRecommendations(overall_flaw_score)]

\* ------------------------------------------------------------------------
\* calculate_overall_score, in binary64.  The sub-scores it reads were
\* rounded to 3 decimals, so each is the double nearest to k / 1000.

F1 == FInt(1)

yellowness_weight == FRatio(4, 10)

flaws_weight == FRatio(6, 10)

\* round(x, 3) of a double as thousandths: rint(x * 1000) (numpy), after
\* which the division by 1000 gives the double nearest to that many thousandths
FRound3(x) == FRint(FMul(x, FInt(1000)))

\* max(0.0, min(1.0, x))
Clamp01(x) ==
    LET m == IF FLess(x, F1) THEN x ELSE F1
    IN  IF FLess(FZero, m) THEN m ELSE FZero

\* the weighted sum of the two health scores, before clamping
WeightedHealth(yellowness_health, flaws_health) ==
    FAdd(FMul(yellowness_health, yellowness_weight), FMul(flaws_health, flaws_weight))

Grade(overall_score) ==
    IF FGeq(overall_score, FRatio(9, 10)) THEN "A+"
    ELSE IF FGeq(overall_score, FRatio(8, 10)) THEN "A"
    ELSE IF FGeq(overall_score, FRatio(7, 10)) THEN "B"
    ELSE IF FGeq(overall_score, FRatio(6, 10)) THEN "C"
    ELSE IF FGeq(overall_score, FRatio(5, 10)) THEN "D"
    ELSE "F"

OverallFallback ==
    [overall_score |-> 500, grade |-> "C",
     yellowness_contribution |-> 0, flaws_contribution |-> 0]

\* yellowness_score and flaw_score in thousandths; the result's numbers
\* in thousandths
calculate_overall_score(yellowness_score, flaw_score, fault) ==
    IF fault = "overall" THEN OverallFallback
    ELSE LET yellowness_health == FSub(F1, FRatio(yellowness_score, 1000))
             flaws_health      == FSub(F1, FRatio(flaw_score, 1000))
             overall_score     == Clamp01(WeightedHealth(yellowness_health, flaws_health))
         IN  [overall_score |-> FRound3(overall_score),
              grade |-> Grade(overall_score),
              yellowness_contribution |-> FRound3(FMul(yellowness_health, yellowness_weight)),
              flaws_contribution |-> FRound3(FMul(flaws_health, flaws_weight))]

\* ------------------------------------------------------------------------
\* analyze_dental_image

\* an exception raised inside a stage (cv2.error, MemoryError, ...): the
\* stage it strikes, or "none"
Faults ==
    {"none", "preprocess", "segment", "yellowness", "flaws", "dark_spots",
     "edges", "texture", "plaque", "overall", "summary"}

\* the caller's metadata: None, a dict, or an object whose truth value
\* raises (a numpy array), on which "user_info or {}" fails
UserInfos == {"None", "dict", "array"}

\* the except branch with the time of the failure written into the error
DegradedReportStamped(now, error) ==
    [timestamp |-> now,
     error |-> <<error, now>>,
     teeth_detected |-> FALSE,
     yellowness_analysis |-> [condition |-> "error", yellowness_score |-> 0],
     flaws_analysis |-> [condition |-> "error", flaw_score |-> 0],
     overall_assessment |-> [overall_score |-> 0, grade |-> "F"],
     summary |-> [primary_concerns |-> <<"Analysis failed">>,
                  recommendations |-> {"Please retake photo with better lighting"}]]

\* the report of the except branch
DegradedReport(now, error) ==
    [timestamp |-> now,
     error |-> error,
     teeth_detected |-> FALSE,
     yellowness_analysis |-> [condition |-> "error", yellowness_score |-> 0],
     flaws_analysis |-> [condition |-> "error", flaw_score |-> 0],
     overall_assessment |-> [overall_score |-> 0, grade |-> "F"],
     summary |-> [primary_concerns |-> <<"Analysis failed">>,
                  recommendations |-> {"Please retake photo with better lighting"}]]

\* the set of the elements of a sequence
Range(q) == {q[k] : k \in 1..Len(q)}

\* the slice [:3]
FirstThree(q) == SubSeq(q, 1, Min(3, Len(q)))

\* the slice [:2]
FirstTwo(q) == SubSeq(q, 1, Min(2, Len(q)))

\* the threshold met by a mask of exactly 1000 pixels
TeethDetectedFrom1000(mask_area) == mask_area >= 1000

\* np.sum(teeth_mask) > 1000
TeethDetected(mask_area) == mask_area > 1000

\* the report assembled after the stages; summary.recommendations is
\* list(set(...)), whose order Python leaves open: a set
CompleteReport(now, user_info, mask_area, yellowness_result, flaws_result, overall_result) ==
    LET yellow == yellowness_result.yellowness_score > 300
        flaws  == flaws_result.flaw_score > 300
    IN  [timestamp |-> now,
         user_info |-> IF user_info = "None" THEN "{}" ELSE user_info,
         teeth_detected |-> TeethDetected(mask_area),
         yellowness_analysis |-> yellowness_result,
         flaws_analysis |-> flaws_result,
         overall_assessment |-> overall_result,
         summary |->
            [primary_concerns |->
                (IF yellow THEN << <<"Tooth yellowness", yellowness_result.severity>> >> ELSE <<>>)
                \o (IF flaws THEN << <<"Dental flaws", flaws_result.severity>> >> ELSE <<>>),
             recommendations |->
                (IF yellow THEN Range(FirstTwo(yellowness_result.recommendations)) ELSE {})
                \cup (IF flaws THEN Range(FirstTwo(flaws_result.recommendations)) ELSE {})]]

\* the element of a one-element set: The({e(x) : x \in {v}}) is e(x) with
\* x standing for the value of v, computed once
The(S) == CHOOSE x \in S : TRUE

\* the try block from the aggregation to the return, given the results of
\* the two analyzers: what was raised ("" when nothing was), and the report
Assess(now, user_info, fault, mask_area, yellowness_result, flaws_result) ==
    The({IF fault = "summary" \/ user_info = "array"
         THEN [raised |-> "summary", masked |-> TRUE, mask_area |-> mask_area]
         ELSE [raised |-> "", masked |-> TRUE, mask_area |-> mask_area,
               report |-> CompleteReport(now, user_info, mask_area,
                              yellowness_result, flaws_result, overall_result)]
         : overall_result \in
             {calculate_overall_score(yellowness_result.yellowness_score,
                                      flaws_result.flaw_score, fault)}})

\* the try block from the two analyzers on, given the mask
Examine(image, px, mask, user_info, fault, now) ==
    The({Assess(now, user_info, fault, MaskArea(px, mask), yellowness_result, flaws_result)
         : yellowness_result \in {analyze_tooth_yellowness(px, mask, fault)},
           flaws_result \in {detect_basic_dental_flaws(image, px, mask, fault)}})

\* the try block up to the return: the report, the mask area when a mask
\* was computed, and the exception that reached the except clause ("" when
\* none did)
TryAnalyze(image, user_info, fault, now) ==
    The({IF fault = "preprocess" \/ pre.raised
         THEN [raised |-> "preprocess", masked |-> FALSE, mask_area |-> 0]
         ELSE The({Examine(image, pre.px, mask, user_info, fault, now)
                   : mask \in {detect_teeth_region(pre.px, fault)}})
         : pre \in {preprocess_image(image)}})

\* a handler that catches only preprocess_image's ValueError
CaughtValueError(raised) == raised = "preprocess"

\* "except Exception": whether the handler of analyze_dental_image catches
\* what the try block raised
Caught(raised) == raised # ""

\* one invocation: [report, stored, escaped, raised, masked, mask_area];
\* escaped tells that the exception left analyze_dental_image
analyze_dental_image(image, user_info, fault, now) ==
    The({IF t.raised = ""
         THEN [report |-> t.report, stored |-> TRUE, escaped |-> FALSE,
               raised |-> "", masked |-> TRUE, mask_area |-> t.mask_area]
         ELSE IF Caught(t.raised)
         THEN [report |-> DegradedReport(now, t.raised), stored |-> FALSE,
               escaped |-> FALSE, raised |-> t.raised, masked |-> t.masked,
               mask_area |-> t.mask_area]
         ELSE [report |-> [timestamp |-> now], stored |-> FALSE, escaped |-> TRUE,
               raised |-> t.raised, masked |-> t.masked, mask_area |-> t.mask_area]
         : t \in {TryAnalyze(image, user_info, fault, now)}})

\* ------------------------------------------------------------------------
\* The images analysed.  Areas are pixels of the 512 x 512 frame.

Rest(area) == FramePixels - area

Solid(rgb, area) == Region(rgb, area, "wide", 0)

\* the test script's image: every pixel (240, 240, 240)
ImgUniform == Image(3, <<Solid(W240, FramePixels)>>, 0, 0, 0)

\* ivory teeth in front of the gums
ImgTeeth == Image(3, <<Solid(Ivory, 60000), Solid(Gum, Rest(60000))>>, 40, 120, 250)

\* teeth whose LAB b is 148 and whose hue lies below the yellow band
ImgPeach == Image(3, <<Solid(Peach, 60000), Solid(Gum, Rest(60000))>>, 40, 120, 250)

\* a bright patch of exactly 1000 pixels, and one of 1001
ImgPatch1000 == Image(3, <<Solid(White, 1000), Solid(Black, Rest(1000))>>, 30, 50, 90)

ImgPatch1001 == Image(3, <<Solid(White, 1001), Solid(Black, Rest(1001))>>, 30, 50, 90)

\* a bright speck narrower than the structuring element
ImgSpeck == Image(3, <<Region(White, 12, "narrow", 0), Solid(Black, Rest(12))>>, 0, 0, 0)

\* uniformly dark orange, and uniformly yellow
ImgRust == Image(3, <<Solid(Rust, FramePixels)>>, 2, 0, 0)

ImgYellow == Image(3, <<Solid(Yellow, FramePixels)>>, 2, 0, 0)

\* greenish white teeth: LAB a below 128
ImgMint == Image(3, <<Solid(Mint, 60000), Solid(Black, Rest(60000))>>, 40, 120, 250)

\* half the teeth covered with tartar, rough surface
ImgPlaque ==
    Image(3, <<Solid(Tartar, 30000), Solid(Ivory, 30000), Solid(Black, Rest(60000))>>,
          60, 600, 700)

\* grey and ivory teeth, half and half
ImgMixed ==
    Image(3, <<Solid(W240, 30000), Solid(Ivory, 30000), Solid(Gum, Rest(60000))>>,
          40, 120, 250)

\* a tooth with a dark crack 3 pixels wide, jagged outline
ImgCrack ==
    Image(3, <<Solid(Ivory, 50000), Region(Black, 3000, "narrow", 1),
               Solid(Gum, Rest(53000))>>, 2500, 300, 400)

\* a tooth with two grey stains of 40 pixels each
ImgStains ==
    Image(3, <<Solid(Ivory, 60000), Region(Grey200, 40, "wide", 1),
               Region(Grey200, 40, "wide", 1), Solid(Gum, Rest(60080))>>, 40, 120, 250)

\* an RGBA image of ivory teeth, and a single-channel (mode "L") image
ImgRGBA == Image(4, <<Solid(Ivory, 60000), Solid(Black, Rest(60000))>>, 40, 120, 250)

ImgGrayscale == Image(1, <<Solid(W240, FramePixels)>>, 0, 0, 0)

Images ==
    {ImgUniform, ImgTeeth, ImgPeach, ImgPatch1000, ImgPatch1001, ImgSpeck, ImgRust,
     ImgYellow, ImgMint, ImgPlaque, ImgMixed, ImgCrack, ImgStains, ImgRGBA, ImgGrayscale}

\* ------------------------------------------------------------------------
\* State

VARIABLES
    model_loaded,      \* DentalAIModel.model_loaded
    analysis_history,  \* DentalAIModel.analysis_history
    clock,             \* datetime.now(), counted in invocations
    returned,          \* what each invocation got and gave back, in order
    call               \* a direct call of one stage: its arguments and result

vars == <<model_loaded, analysis_history, clock, returned, call>>

NoCall == [stage |-> "none"]

\* DentalAIModel.__init__
Init ==
    /\ model_loaded = TRUE
    /\ analysis_history = <<>>
    /\ clock = 0
    /\ returned = <<>>
    /\ call = NoCall

\* one call of analyze_dental_image(image, user_info) during which the
\* exception named by fault (if any) is raised
Analyze(image, user_info, fault) ==
    \E out \in {analyze_dental_image(image, user_info, fault, clock + 1)} :
        /\ clock' = clock + 1
        /\ analysis_history' =
              IF out.stored THEN Append(analysis_history, out.report) ELSE analysis_history
        /\ returned' = Append(returned,
              [image |-> image, user_info |-> user_info, fault |-> fault, out |-> out])
        /\ UNCHANGED <<model_loaded, call>>

\* the number of invocations followed on one model instance
MaxCalls == 3

SessionImages == {ImgUniform, ImgTeeth, ImgGrayscale}

SessionFaults == {"none", "segment"}

SessionUserInfos == {"None", "array"}

Next ==
    \E image \in SessionImages, user_info \in SessionUserInfos, fault \in SessionFaults :
        /\ Len(returned) < MaxCalls
        /\ Analyze(image, user_info, fault)

Spec == Init /\ [][Next]_vars

\* a single invocation, over every image, metadata and fault
NextReport ==
    \E image \in Images, user_info \in UserInfos, fault \in Faults :
        /\ returned = <<>>
        /\ Analyze(image, user_info, fault)

SpecReport == Init /\ [][NextReport]_vars

\* ------------------------------------------------------------------------
\* Direct calls of the analyzers, which are public methods: a preprocessed
\* image and any mask over it

AnalyzerFaults == {"none", "yellowness", "flaws", "dark_spots", "edges", "texture", "plaque"}

AnalyzerArgs ==
    UNION {{[stage |-> "args", image |-> im, mask |-> m, fault |-> f] :
                m \in SUBSET Idx(im.regions), f \in AnalyzerFaults} :
           im \in {x \in Images : ~preprocess_image(x).raised}}

InitAnalyzers ==
    /\ model_loaded = TRUE
    /\ analysis_history = <<>>
    /\ clock = 0
    /\ returned = <<>>
    /\ call \in AnalyzerArgs

CallYellowness ==
    /\ call.stage = "args"
    /\ call' = [stage |-> "analyze_tooth_yellowness", image |-> call.image,
                 mask |-> call.mask, fault |-> call.fault,
                 result |-> analyze_tooth_yellowness(preprocess_image(call.image).px,
                                                     call.mask, call.fault)]
    /\ UNCHANGED <<model_loaded, analysis_history, clock, returned>>

CallFlaws ==
    /\ call.stage = "args"
    /\ call' = [stage |-> "detect_basic_dental_flaws", image |-> call.image,
                 mask |-> call.mask, fault |-> call.fault,
                 result |-> detect_basic_dental_flaws(call.image,
                                preprocess_image(call.image).px, call.mask, call.fault)]
    /\ UNCHANGED <<model_loaded, analysis_history, clock, returned>>

NextAnalyzers == CallYellowness \/ CallFlaws

SpecAnalyzers == InitAnalyzers /\ [][NextAnalyzers]_vars

\* ------------------------------------------------------------------------
\* Direct calls of calculate_overall_score on sub-scores in thousandths

\* the yellowness scores tried are 0..MaxYellowness and three larger ones,
\* the flaw scores 0..MaxFlaw
MaxYellowness == 5

MaxFlaw == 1000

YellownessGrid == (0..MaxYellowness) \cup {200, 500, 1000}

InitAggregator ==
    /\ model_loaded = TRUE
    /\ analysis_history = <<>>
    /\ clock = 0
    /\ returned = <<>>
    /\ call \in {[stage |-> "args", yellowness_score |-> d, flaw_score |-> f] :
                    d \in YellownessGrid, f \in 0..MaxFlaw}

CallOverall ==
    /\ call.stage = "args"
    /\ call' = [stage |-> "calculate_overall_score",
                 yellowness_score |-> call.yellowness_score,
                 flaw_score |-> call.flaw_score,
                 result |-> calculate_overall_score(call.yellowness_score,
                                                    call.flaw_score, "none")]
    /\ UNCHANGED <<model_loaded, analysis_history, clock, returned>>

NextAggregator == CallOverall

SpecAggregator == InitAggregator /\ [][NextAggregator]_vars

\* ========================================================================
\* Properties

\* the invocations of analyze_dental_image made so far
Calls == Range(returned)

\* the invocations that ended COMPLETE, and those that ended DEGRADED
Complete == {c \in Calls : c.out.raised = ""}

Degraded == {c \in Calls : c.out.raised # "" /\ ~c.out.escaped}

\* C1: after any sequence of invocations, COMPLETE or DEGRADED, the
\* history holds exactly the reports returned, in invocation order.
C1_HistoryHoldsEveryReport ==
    /\ Len(analysis_history) = Len(returned)
    /\ \A k \in 1..Len(returned) : analysis_history[k] = returned[k].out.report

\* C2: no exception leaves analyze_dental_image, and an invocation in which
\* a stage failed with an unhandled error returns the DEGRADED report: the
\* three scores 0, teeth_detected false, grade F, the single concern
\* "Analysis failed", one recommendation and the error field populated.
C2_FailureGivesDegradedReport ==
    \A c \in Calls :
        /\ ~c.out.escaped
        /\ c.out.raised # "" =>
            LET r == c.out.report
            IN  /\ r.yellowness_analysis.yellowness_score = 0
                /\ r.flaws_analysis.flaw_score = 0
                /\ r.overall_assessment.overall_score = 0
                /\ r.teeth_detected = FALSE
                /\ r.overall_assessment.grade = "F"
                /\ r.summary.primary_concerns = <<"Analysis failed">>
                /\ r.summary.recommendations = {"Please retake photo with better lighting"}
                /\ "error" \in DOMAIN r
                /\ r.error = c.out.raised

C2_SummaryFailureReturned ==
    \E c \in Degraded :
        /\ c.out.raised = "summary"
        /\ c.user_info = "array"
        /\ c.out.mask_area > 1000
        /\ c.out.report.overall_assessment.grade = "F"

\* the invocations of Scenario 1: the uniform (240, 240, 240) image, no
\* fault, analysed to the end
Scenario1 == {c \in Complete : c.image = ImgUniform /\ c.fault = "none"}

\* C3 as stated: the uniform (240, 240, 240) image yields an empty mask,
\* teeth_detected false, both sub-scores 0, overall score 0.6 and grade C.
C3_UniformGivesSixTenthsC ==
    \A c \in Scenario1 :
        /\ c.out.mask_area = 0
        /\ c.out.report.teeth_detected = FALSE
        /\ c.out.report.yellowness_analysis.yellowness_score = 0
        /\ c.out.report.flaws_analysis.flaw_score = 0
        /\ c.out.report.overall_assessment.overall_score = 600
        /\ c.out.report.overall_assessment.grade = "C"

\* C3, amended: the uniform (240, 240, 240) image yields an empty mask,
\* teeth_detected false, both sub-scores 0, and so the overall score
\* 0.4 * 1 + 0.6 * 1 = 1.0 with grade A+.
C3_UniformGivesOneAPlus ==
    \A c \in Scenario1 :
        /\ c.out.mask_area = 0
        /\ c.out.report.teeth_detected = FALSE
        /\ c.out.report.yellowness_analysis.yellowness_score = 0
        /\ c.out.report.flaws_analysis.flaw_score = 0
        /\ c.out.report.overall_assessment.overall_score = 1000
        /\ c.out.report.overall_assessment.grade = "A+"

C3_UniformAnalysed ==
    \E c \in Scenario1 : c.out.report.yellowness_analysis.severity = "Cannot detect teeth"

\* the reports returned so far
Reports == {c.out.report : c \in Calls}

\* C4: every score of every returned report lies in [0, 1]: the yellowness
\* score (also when the dark-teeth factor 1.2 was applied), each
\* sub-detector's score, the flaw score and the overall score.
C4_ScoresInUnitInterval ==
    \A r \in Reports :
        /\ r.yellowness_analysis.yellowness_score \in 0..1000
        /\ r.flaws_analysis.flaw_score \in 0..1000
        /\ r.overall_assessment.overall_score \in 0..1000
        /\ "detailed_analysis" \in DOMAIN r.flaws_analysis =>
              LET d == r.flaws_analysis.detailed_analysis
              IN  /\ d.dark_spots.score \in 0..Million
                  /\ d.edge_irregularities.score \in 0..Million
                  /\ d.surface_texture.score \in 0..Million
                  /\ d.plaque_tartar.score \in 0..Million

C4_DarkTeethScored ==
    \E c \in Complete :
        /\ c.out.report.yellowness_analysis.whiteness_level < 400
        /\ c.out.report.yellowness_analysis.yellowness_score > 600
        /\ c.out.report.flaws_analysis.flaw_score = 1000

\* the tier a severity label opens with; any other label stands for itself
Tier(severity) ==
    CASE severity \in {"Excellent - Very white teeth", "Excellent - No significant flaws"}
            -> "Excellent"
      [] severity \in {"Good - Slight yellowness", "Good - Minor issues"} -> "Good"
      [] severity \in {"Fair - Moderate yellowness", "Fair - Moderate issues"} -> "Fair"
      [] severity \in {"Poor - Significant yellowness", "Poor - Multiple issues"} -> "Poor"
      [] severity \in {"Critical - Severe yellowness", "Critical - Severe issues"}
            -> "Critical"
      [] OTHER -> severity

Tiers == {"Excellent", "Good", "Fair", "Poor", "Critical"}

DetectorTiers == {"None", "Mild", "Moderate", "Severe"}

Grades == {"A+", "A", "B", "C", "D", "F"}

\* the severities of the four sub-detectors of a flaw result, when it has them
DetectorSeverities(flaws_result) ==
    IF "detailed_analysis" \in DOMAIN flaws_result
    THEN LET d == flaws_result.detailed_analysis
         IN  {d.dark_spots.severity, d.edge_irregularities.severity,
              d.surface_texture.severity, d.plaque_tartar.severity}
    ELSE {}

\* C5 as stated: on every path, the empty-mask and internal-error paths of
\* the analyzers included, the yellowness and the flaw severity are one of
\* the five tiers, each sub-detector severity is one of None, Mild,
\* Moderate, Severe, and the grade is one of A+, A, B, C, D, F.
C5_SeverityAlwaysATier ==
    \A r \in Reports :
        /\ "severity" \in DOMAIN r.yellowness_analysis =>
              Tier(r.yellowness_analysis.severity) \in Tiers
        /\ "severity" \in DOMAIN r.flaws_analysis =>
              Tier(r.flaws_analysis.severity) \in Tiers
        /\ DetectorSeverities(r.flaws_analysis) \subseteq DetectorTiers
        /\ r.overall_assessment.grade \in Grades

\* C5, amended: in every COMPLETE report the yellowness severity is
\* "Error in analysis" when the analyzer failed, "Cannot detect teeth" when
\* the mask is empty and one of the five tiers otherwise; the flaw severity
\* is "Error in analysis", "Cannot analyze" or one of the five tiers in the
\* same three cases; each sub-detector severity is one of None, Mild,
\* Moderate, Severe; and in every report the grade is one of A+, A, B, C, D, F.
C5_SeverityATierOrNotice ==
    \A c \in Calls :
        LET r == c.out.report
        IN  /\ r.overall_assessment.grade \in Grades
            /\ c \in Complete =>
                /\ IF c.fault = "yellowness"
                   THEN r.yellowness_analysis.severity = "Error in analysis"
                   ELSE IF c.out.mask_area = 0
                   THEN r.yellowness_analysis.severity = "Cannot detect teeth"
                   ELSE Tier(r.yellowness_analysis.severity) \in Tiers
                /\ IF c.fault = "flaws"
                   THEN r.flaws_analysis.severity = "Error in analysis"
                   ELSE IF c.out.mask_area = 0
                   THEN r.flaws_analysis.severity = "Cannot analyze"
                   ELSE Tier(r.flaws_analysis.severity) \in Tiers
                /\ DetectorSeverities(r.flaws_analysis) \subseteq DetectorTiers

C5_EmptyMaskNotices ==
    \E c \in Complete :
        /\ c.fault = "none"
        /\ c.out.mask_area = 0
        /\ c.out.report.yellowness_analysis.severity = "Cannot detect teeth"
        /\ c.out.report.flaws_analysis.severity = "Cannot analyze"

\* the direct calls of Scenario 2: the masked pixels have mean LAB b 148,
\* none has a hue in the yellow band, and the whiteness is at least 0.4
Scenario2 ==
    IF call.stage = "analyze_tooth_yellowness" /\ call.fault = "none"
    THEN LET px == preprocess_image(call.image).px
             n  == MaskArea(px, call.mask)
         IN  /\ n > 0
             /\ ChannelSum(px, call.mask, LabOf(px, 3)) = 148 * n
             /\ \A i \in call.mask : HsvOf(px, 1)[i] < 15 \/ HsvOf(px, 1)[i] > 35
             /\ 10 * ChannelSum(px, call.mask, LabOf(px, 1)) >= 4 * 255 * n
    ELSE FALSE

\* C6 as stated: with mean b 148, no yellow hue and whiteness not below
\* 0.4, the yellowness score is 0.110 and the severity tier is Good.
C6_Mean148IsGood ==
    Scenario2 =>
        /\ call.result.yellowness_score = 110
        /\ Tier(call.result.severity) = "Good"

\* C6, amended: with mean b 148, no yellow hue and whiteness not below
\* 0.4, the yellowness score is 0.110 and, 0.110 being below 0.15, the
\* severity is "Excellent - Very white teeth".
C6_Mean148IsExcellent ==
    Scenario2 =>
        /\ call.result.yellowness_score = 110
        /\ call.result.severity = "Excellent - Very white teeth"

C6_Mean148Analysed ==
    /\ Scenario2
    /\ call.result.lab_b_value = 14800
    /\ call.result.yellow_hue_percentage = 0

\* the reference aggregator in exact arithmetic, in ten-thousandths:
\* clamp(0.4 * (1 - d) + 0.6 * (1 - f), 0, 1) for d and f in thousandths
ReferenceOverall(d, f) == Max(0, Min(10000, 4 * (1000 - d) + 6 * (1000 - f)))

\* the reference grade of an overall score in ten-thousandths, each
\* boundary belonging to the higher grade
ReferenceGrade(x) ==
    IF x >= 9000 THEN "A+"
    ELSE IF x >= 8000 THEN "A"
    ELSE IF x >= 7000 THEN "B"
    ELSE IF x >= 6000 THEN "C"
    ELSE IF x >= 5000 THEN "D"
    ELSE "F"

\* C7: for all sub-scores d, f in [0, 1], calculate_overall_score returns
\* the reference overall score clamp(0.4 (1 - d) + 0.6 (1 - f), 0, 1) (to
\* the 3 decimals it reports) and the grade of the reference bands, each
\* boundary value taking the higher grade.
C7_OverallEqualsReference ==
    call.stage = "calculate_overall_score" =>
        LET x == ReferenceOverall(call.yellowness_score, call.flaw_score)
        IN  /\ 10 * call.result.overall_score - x \in -5..5
            /\ call.result.grade = ReferenceGrade(x)

\* whether a direct call of an analyzer got a mask that is entirely false
EmptyMask == MaskArea(preprocess_image(call.image).px, call.mask) = 0

\* C8: on an entirely false mask analyze_tooth_yellowness returns score 0,
\* severity "Cannot detect teeth" and one retake-photo recommendation, and
\* detect_basic_dental_flaws returns score 0 and no issues without running
\* a sub-detector (none of their results, and none of their failures).
C8_EmptyMaskResults ==
    /\ (call.stage = "analyze_tooth_yellowness" /\ call.fault # "yellowness" /\ EmptyMask) =>
          /\ call.result.yellowness_score = 0
          /\ call.result.severity = "Cannot detect teeth"
          /\ call.result.recommendations =
                <<"Please retake photo with better lighting and teeth visibility">>
    /\ (call.stage = "detect_basic_dental_flaws" /\ call.fault # "flaws" /\ EmptyMask) =>
          /\ call.result.flaw_score = 0
          /\ call.result.issues_detected = <<>>
          /\ "detailed_analysis" \notin DOMAIN call.result

C8_EmptyMaskAnalysed ==
    /\ call.stage = "detect_basic_dental_flaws"
    /\ call.fault = "dark_spots"
    /\ call.mask = {}
    /\ call.result.severity = "Cannot analyze"

\* the four sub-detector results of a flaw result that has them
Detectors(flaws_result) ==
    LET d == flaws_result.detailed_analysis
    IN  <<d.dark_spots, d.edge_irregularities, d.surface_texture, d.plaque_tartar>>

\* the sub-detectors whose severity is not "None"
Reporting(flaws_result) == {k \in 1..4 : Detectors(flaws_result)[k].severity # "None"}

\* C9: on a non-empty mask the flaw score is the mean (to 3 decimals) of
\* the scores of exactly the sub-detectors whose severity is not "None",
\* there are as many issue strings as such scores, and when all four
\* report "None" the score is 0 and the issues list is empty.
C9_FlawScoreIsMeanOfReported ==
    (call.stage = "detect_basic_dental_flaws" /\ call.fault # "flaws" /\ ~EmptyMask) =>
        LET r   == call.result
            rep == Reporting(r)
            sum == SumOver(rep, [k \in 1..4 |-> Detectors(r)[k].score], 0)
        IN  /\ Len(r.issues_detected) = Cardinality(rep)
            /\ rep = {} => r.flaw_score = 0 /\ r.issues_detected = <<>>
            /\ rep # {} => r.flaw_score = Round3(sum \div Cardinality(rep))

C9_TwoOfFourReported ==
    /\ call.stage = "detect_basic_dental_flaws"
    /\ call.fault = "none"
    /\ ~EmptyMask
    /\ Cardinality(Reporting(call.result)) = 2
    /\ \E k \in 1..4 : /\ Detectors(call.result)[k].severity = "None"
                       /\ Detectors(call.result)[k].score > 0
    /\ call.result.flaw_score > 0

\* C10 as stated: in every report of an invocation that computed a teeth
\* mask, teeth_detected is true iff the mask has more than 1000 true pixels.
C10_TeethDetectedIffOver1000 ==
    \A c \in Calls :
        c.out.masked => (c.out.report.teeth_detected <=> c.out.mask_area > 1000)

\* C10, amended: in every COMPLETE report teeth_detected is true iff the
\* mask has more than 1000 true pixels (exactly 1000 gives false); in every
\* DEGRADED report teeth_detected is false, whatever mask was computed.
C10_TeethDetectedWhenComplete ==
    \A c \in Calls :
        /\ c \in Complete => (c.out.report.teeth_detected <=> c.out.mask_area > 1000)
        /\ c \in Degraded => ~c.out.report.teeth_detected

C10_MaskOfExactly1000 ==
    \E c \in Complete :
        /\ c.out.mask_area = 1000
        /\ ~c.out.report.teeth_detected
        /\ c.out.report.yellowness_analysis.severity = "Excellent - Very white teeth"

\* a report without its timestamp
Untimed(report) == [f \in DOMAIN report \ {"timestamp"} |-> report[f]]

TwoOf(recommendations) ==
    {recommendations[i] : i \in DOMAIN recommendations \cap {1, 2}}

\* C12: in a COMPLETE report primary_concerns holds the yellowness severity
\* label iff the yellowness score exceeds 0.3 and the flaw severity label
\* iff the flaw score exceeds 0.3, yellowness first, and
\* summary.recommendations is the union of the first two recommendations
\* of each analyzer so triggered, hence at most four and none from an
\* analyzer that was not triggered.
C12_SummaryFollowsThresholds ==
    \A c \in Complete :
        LET r == c.out.report
            y == r.yellowness_analysis
            f == r.flaws_analysis
        IN  /\ r.summary.primary_concerns =
                  (IF y.yellowness_score > 300
                   THEN << <<"Tooth yellowness", y.severity>> >> ELSE <<>>)
                  \o (IF f.flaw_score > 300
                      THEN << <<"Dental flaws", f.severity>> >> ELSE <<>>)
            /\ r.summary.recommendations =
                  (IF y.yellowness_score > 300 THEN TwoOf(y.recommendations) ELSE {})
                  \cup (IF f.flaw_score > 300 THEN TwoOf(f.recommendations) ELSE {})
            /\ Cardinality(r.summary.recommendations) <= 4

C12_BothConcernsRaised ==
    \E c \in Complete :
        /\ Len(c.out.report.summary.primary_concerns) = 2
        /\ Cardinality(c.out.report.summary.recommendations) = 4
        /\ Len(c.out.report.yellowness_analysis.recommendations) > 2

\* C13: every report returned, COMPLETE or DEGRADED, has the fields the
\* test script reads: teeth_detected; overall_assessment.overall_score and
\* .grade; yellowness_analysis.yellowness_score, .severity and
\* .whiteness_level; flaws_analysis.flaw_score, .severity and
\* .issues_detected; summary.recommendations.
C13_ReportHasFullShape ==
    \A r \in Reports :
        /\ {"teeth_detected", "overall_assessment", "yellowness_analysis",
            "flaws_analysis", "summary"} \subseteq DOMAIN r
        /\ {"overall_score", "grade"} \subseteq DOMAIN r.overall_assessment
        /\ {"yellowness_score", "severity", "whiteness_level"}
              \subseteq DOMAIN r.yellowness_analysis
        /\ {"flaw_score", "severity", "issues_detected"} \subseteq DOMAIN r.flaws_analysis
        /\ "recommendations" \in DOMAIN r.summary

\* ------------------------------------------------------------------------
\* The readiness query, between the analyses of one service

\* the methods class DentalAIModel defines
Methods ==
    {"__init__", "is_loaded", "preprocess_image", "detect_teeth_region",
     "analyze_tooth_yellowness", "detect_basic_dental_flaws", "_detect_dark_spots",
     "_detect_edge_irregularities", "_analyze_surface_texture", "_detect_plaque_tartar",
     "calculate_overall_score", "analyze_dental_image"}

\* model.<name>(): the value returned, or the AttributeError of a name the
\* class does not define
Readiness(name) ==
    IF name \notin Methods THEN [raised |-> "AttributeError"]
    ELSE [raised |-> "", value |-> model_loaded]

\* DentalAIModel.is_loaded()
is_loaded ==
    /\ call' = [stage |-> "is_loaded", result |-> Readiness("is_loaded")]
    /\ UNCHANGED <<model_loaded, analysis_history, clock, returned>>

\* GET /api/health: 200 with model_loaded, or 500 when the view raised
health_check ==
    /\ \E q \in {Readiness("is_model_loaded")} :
          call' = [stage |-> "health_check", result |-> q,
                   status |-> IF q.raised = "" THEN 200 ELSE 500]
    /\ UNCHANGED <<model_loaded, analysis_history, clock, returned>>

\* step 1 of the test script, on a model of its own: "Model loaded: ..."
test_analysis ==
    /\ call' = [stage |-> "test_analysis", result |-> Readiness("is_model_loaded")]
    /\ UNCHANGED <<model_loaded, analysis_history, clock, returned>>

NextService ==
    \/ \E image \in SessionImages, user_info \in SessionUserInfos :
          /\ Len(returned) < MaxCalls
          /\ Analyze(image, user_info, "none")
    \/ is_loaded
    \/ health_check
    \/ test_analysis

SpecService == Init /\ [][NextService]_vars

\* C14: the readiness query is_model_loaded() made by the test script and
\* by /api/health is answered with true, without an error.
C14_ReadinessAnswersTrue ==
    call.stage \in {"health_check", "test_analysis"} =>
        /\ call.result.raised = ""
        /\ call.result.value = TRUE

\* ------------------------------------------------------------------------
\* Concurrent requests: app.run serves each request on a thread of its own,
\* all of them calling analyze_dental_image on the one dental_ai.  Here
\* call holds each worker thread's position and local variables.

\* the number of worker threads, each serving one request
Workers == 2

Threads == 1..Workers

InitThreads ==
    /\ model_loaded = TRUE
    /\ analysis_history = <<>>
    /\ clock = 0
    /\ returned = <<>>
    /\ call = [t \in Threads |-> [stage |-> "idle"]]

\* the history a thread would write back had it kept the list as it was
\* when its own analysis began
StoreOverStale(history, report) ==
    Append(SelectSeq(history, LAMBDA r : r.timestamp < report.timestamp), report)

\* self.analysis_history.append(analysis_result): one step of the
\* interpreter, which no other thread's step divides
list_append(history, report) == Append(history, report)

\* thread t runs the body of analyze_dental_image up to the summary (or up
\* to the exception): its result is held in the thread's local variables
Begin(t, image) ==
    /\ call[t].stage = "idle"
    /\ \E out \in {analyze_dental_image(image, "None", "none", clock + 1)} :
          call' = [call EXCEPT ![t] =
                      [stage |-> "analysed", image |-> image, out |-> out]]
    /\ clock' = clock + 1
    /\ UNCHANGED <<model_loaded, analysis_history, returned>>

\* thread t stores its COMPLETE report in the history
Store(t) ==
    /\ call[t].stage = "analysed"
    /\ call[t].out.stored
    /\ analysis_history' = list_append(analysis_history, call[t].out.report)
    /\ call' = [call EXCEPT ![t].stage = "stored"]
    /\ UNCHANGED <<model_loaded, clock, returned>>

\* thread t returns its report: after the append, or from the except branch
Return(t) ==
    /\ \/ call[t].stage = "stored"
       \/ call[t].stage = "analysed" /\ ~call[t].out.stored
    /\ returned' = Append(returned,
          [image |-> call[t].image, user_info |-> "None", fault |-> "none",
           out |-> call[t].out])
    /\ call' = [call EXCEPT ![t] = [stage |-> "done"]]
    /\ UNCHANGED <<model_loaded, analysis_history, clock>>

NextThreads ==
    \E t \in Threads :
        \/ \E image \in SessionImages : Begin(t, image)
        \/ Store(t)
        \/ Return(t)

SpecThreads == InitThreads /\ [][NextThreads]_vars

\* how many entries of the history are the report
Copies(report) ==
    Cardinality({k \in 1..Len(analysis_history) : analysis_history[k] = report})

C16_SegmentationFailsOpen ==
    \A c \in Calls :
        (c.fault = "segment" /\ c.out.masked /\ c.user_info # "array") =>
            /\ c.out.mask_area = FramePixels
            /\ c \in Complete
            /\ c.out.report.teeth_detected
            /\ "error" \notin DOMAIN c.out.report
            /\ "lab_b_value" \in DOMAIN c.out.report.yellowness_analysis
            /\ "detailed_analysis" \in DOMAIN c.out.report.flaws_analysis
            /\ c.out.report.overall_assessment.overall_score =
                  calculate_overall_score(
                      c.out.report.yellowness_analysis.yellowness_score,
                      c.out.report.flaws_analysis.flaw_score, "none").overall_score

C16_UniformImageAllTeeth ==
    \E c \in Complete :
        /\ c.fault = "segment"
        /\ c.image = ImgUniform
        /\ c.out.mask_area = FrameSide * FrameSide
        /\ c.out.report.teeth_detected

\* the sub-detector an exception strikes: its position among the four
Struck(fault) ==
    CASE fault = "dark_spots" -> 1
      [] fault = "edges" -> 2
      [] fault = "texture" -> 3
      [] fault = "plaque" -> 4
      [] OTHER -> 0

\* the direct calls of detect_basic_dental_flaws on a non-empty mask
\* during which one sub-detector raised
DetectorRaised ==
    /\ call.stage = "detect_basic_dental_flaws"
    /\ Struck(call.fault) # 0
    /\ ~EmptyMask

\* the same call when nothing is raised
Unstruck ==
    detect_basic_dental_flaws(call.image, preprocess_image(call.image).px,
                              call.mask, "none")

\* C17: when one sub-detector raises, it alone reports "None" with score
\* 0; the other three results are those of the undisturbed call, and the
\* flaw score, the issues and the severity are those of the three alone.
C17_RaisingDetectorCountsAsNone ==
    DetectorRaised =>
        \E whole \in {Unstruck} :
            LET r     == call.result
                k     == Struck(call.fault)
                rest  == {j \in 1..4 : j # k /\ Detectors(whole)[j].severity # "None"}
                sum   == SumOver(rest, [j \in 1..4 |-> Detectors(whole)[j].score], 0)
                mean  == IF rest = {} THEN 0 ELSE sum \div Cardinality(rest)
                label == <<"Dark spots detected", "Edge irregularities",
                           "Surface irregularities", "Plaque/tartar buildup">>
            IN  /\ Detectors(r)[k] = [severity |-> "None", score |-> 0]
                /\ \A j \in 1..4 \ {k} : Detectors(r)[j] = Detectors(whole)[j]
                /\ r.flaw_score = Round3(mean)
                /\ r.severity = FlawSeverity(mean)
                /\ r.recommendations = FlawRecommendations(mean)
                /\ Len(r.issues_detected) = Cardinality(rest)
                /\ \A i \in 1..Len(r.issues_detected) :
                      \E j \in rest : r.issues_detected[i] =
                                         <<label[j], Detectors(whole)[j].severity>>

C17_SevereDetectorSilenced ==
    /\ DetectorRaised
    /\ call.fault = "dark_spots"
    /\ Unstruck.detailed_analysis.dark_spots.severity = "Severe"
    /\ Len(Unstruck.issues_detected) = 2
    /\ Len(call.result.issues_detected) = 1
    /\ call.result.flaw_score > 0

\* the direct calls of the two analyzers that have returned
YellownessReturned == call.stage = "analyze_tooth_yellowness"

FlawsReturned == call.stage = "detect_basic_dental_flaws"

\* C18 as stated: every result of analyze_tooth_yellowness and of
\* detect_basic_dental_flaws has a non-empty recommendation list.
C18_RecommendationsNeverEmpty ==
    (YellownessReturned \/ FlawsReturned) => call.result.recommendations # <<>>

\* C18, amended: the recommendation list is empty for a yellowness score
\* in (0.15, 0.2] and for a flaw score in (0.2, 0.3], where neither the
\* maintenance advice nor the first tier applies, and non-empty for every
\* other score and on the empty-mask and error paths.  (Scores as reported,
\* to 3 decimals; the two edges of each interval are left out, a reported
\* edge value standing for scores on both sides of it.)
C18_RecommendationsEmptyInTheGap ==
    /\ YellownessReturned =>
          LET score == call.result.yellowness_score
          IN  /\ score \in 151..199 => call.result.recommendations = <<>>
              /\ (score < 150 \/ score > 200) => call.result.recommendations # <<>>
    /\ FlawsReturned =>
          LET score == call.result.flaw_score
          IN  /\ score \in 201..299 => call.result.recommendations = <<>>
              /\ (score < 200 \/ score > 300) => call.result.recommendations # <<>>

C18_SlightYellownessNoAdvice ==
    /\ YellownessReturned
    /\ call.result.severity = "Good - Slight yellowness"
    /\ call.result.yellowness_score \in 151..199
    /\ call.result.recommendations = <<>>

\* the COMPLETE invocations whose report says teeth_detected = false
NoTeethReported == {c \in Complete : ~c.out.report.teeth_detected}

\* C19 as stated: in every COMPLETE report with teeth_detected false no
\* tooth was analysed: the yellowness result is "Cannot detect teeth" with
\* score 0 and the flaw result has score 0 and no issues (stated here for
\* the invocations in which nothing raised).
C19_NoTeethMeansNoAnalysis ==
    \A c \in {x \in NoTeethReported : x.fault = "none"} :
        /\ c.out.report.yellowness_analysis.severity = "Cannot detect teeth"
        /\ c.out.report.yellowness_analysis.yellowness_score = 0
        /\ c.out.report.flaws_analysis.flaw_score = 0
        /\ c.out.report.flaws_analysis.issues_detected = <<>>

\* C19, amended: a COMPLETE report with teeth_detected false comes from a
\* mask of at most 1000 true pixels.  With an empty mask the results are
\* "Cannot detect teeth" and "Cannot analyze" with score 0 and no issues;
\* with 1 to 1000 true pixels both analyzers run on those pixels and report
\* their statistics, severities and sub-detector results (an analyzer that
\* fails reports "Error in analysis" in either case).
C19_NoTeethAnalysedUnlessEmpty ==
    \A c \in NoTeethReported :
        LET y == c.out.report.yellowness_analysis
            f == c.out.report.flaws_analysis
        IN  /\ c.out.mask_area <= 1000
            /\ (c.out.mask_area = 0 /\ c.fault # "yellowness") =>
                  y.severity = "Cannot detect teeth" /\ y.yellowness_score = 0
            /\ (c.out.mask_area = 0 /\ c.fault # "flaws") =>
                  /\ f.severity = "Cannot analyze"
                  /\ f.flaw_score = 0
                  /\ f.issues_detected = <<>>
            /\ (c.out.mask_area > 0 /\ c.fault # "yellowness") =>
                  /\ Tier(y.severity) \in Tiers
                  /\ "lab_b_value" \in DOMAIN y
            /\ (c.out.mask_area > 0 /\ c.fault # "flaws") =>
                  /\ Tier(f.severity) \in Tiers
                  /\ "detailed_analysis" \in DOMAIN f

C19_SmallMaskAnalysed ==
    \E c \in NoTeethReported :
        /\ c.out.mask_area \in 1..1000
        /\ c.fault = "none"
        /\ "detailed_analysis" \in DOMAIN c.out.report.flaws_analysis
        /\ c.out.report.yellowness_analysis.whiteness_level > 0

\* C20: the grade of every result of calculate_overall_score is the grade
\* of the bands applied to the overall_score it reports (rounded to 3
\* decimals), for all sub-scores that are multiples of 0.001.
C20_GradeMatchesReportedScore ==
    call.stage = "calculate_overall_score" =>
        call.result.grade = ReferenceGrade(10 * call.result.overall_score)

\* ------------------------------------------------------------------------
\* The gap below 0.2 in the flaw score

Excellent == "Excellent - No significant flaws"

\* the flaw analysis ran to its end: no exception, a non-empty mask
FlawsAnalysed == FlawsReturned /\ call.fault # "flaws" /\ ~EmptyMask

\* C21 as stated: the flaw score returned by detect_basic_dental_flaws is
\* never strictly between 0 and 0.2, and the severity is "Excellent - No
\* significant flaws" if and only if issues_detected is empty.
C21_ExcellentIffNoIssues ==
    FlawsReturned =>
        /\ call.result.flaw_score \notin 1..199
        /\ call.result.severity = Excellent <=> call.result.issues_detected = <<>>

\* C21, amended: the flaw score returned is 0 or at least 0.2 on every
\* path; when the analysis ran on a non-empty mask the severity is
\* "Excellent - No significant flaws" exactly when issues_detected is empty
\* (and then the score is 0); on the empty-mask and error paths
\* issues_detected is empty although the severity is "Cannot analyze" or
\* "Error in analysis".
C21_NoScoreBelowFifthAndExcellence ==
    FlawsReturned =>
        /\ call.result.flaw_score \notin 1..199
        /\ FlawsAnalysed =>
              /\ call.result.severity = Excellent <=> call.result.issues_detected = <<>>
              /\ call.result.severity = Excellent <=> call.result.flaw_score = 0
        /\ ~FlawsAnalysed =>
              /\ call.result.issues_detected = <<>>
              /\ call.result.flaw_score = 0
              /\ call.result.severity =
                    IF call.fault = "flaws" THEN "Error in analysis" ELSE "Cannot analyze"

\* a sub-detector scored strictly between 0 and 0.2 and no other reported:
\* no issue, score 0, Excellent
C21_FaintFlawLeftOut ==
    /\ FlawsAnalysed
    /\ call.fault = "none"
    /\ \E k \in 1..4 : Detectors(call.result)[k].score \in 1..199999
    /\ call.result.issues_detected = <<>>
    /\ call.result.flaw_score = 0
    /\ call.result.severity = Excellent

====
